---- MODULE Spec2Model ----
(***************************************************************************)
(* Model of launch/gazebo_launch.py: generate_launch_description builds    *)
(* the ordered list of launch entities (five global ones, then three per   *)
(* drone) and returns it wrapped in a LaunchDescription.                   *)
(*                                                                         *)
(* Python strings are TLA+ strings, concatenated with \o.  A filesystem    *)
(* path is kept as the sequence of its '/'-separated components (what      *)
(* path.split('/') gives), so that os.path.join and the file name of a     *)
(* path can be computed.  An optional keyword argument of Node is a        *)
(* sequence: <<>> when the call does not pass it, <<v>> when it passes v.  *)
(* A float literal is the record of its decimal mantissa and exponent.     *)
(***************************************************************************)
EXTENDS Integers, Sequences, FiniteSets, TLC

\* Bounds of the model.
MaxDrones == 11
MaxShort == 3
MaxCalls == 2

\* Decimal numerals written out: Decimal[n + 1] is the numeral of n.
Decimal == <<"0", "1", "2", "3", "4", "5", "6", "7", "8", "9", "10",
             "11", "12", "13", "14", "15", "16", "17", "18", "19", "20">>
Dec(n) == Decimal[n + 1]

\* Participant names: drone1, drone2, ...
NameOf(k) == "drone" \o Dec(k)

\* The rosters the literal of line 13 is drawn from: every list of at most
\* MaxShort names out of drone1 and drone2 (any order, repeats included), and
\* the lists of up to MaxDrones names that cycle through drone1..dronem
\* (m >= n gives n distinct names, m < n repeats names).
ShortRosters == UNION {[1..n -> {NameOf(1), NameOf(2)}] : n \in 0..MaxShort}
LongRosters == {[i \in 1..n |-> NameOf(((i - 1) % m) + 1)] :
                    n \in 0..MaxDrones, m \in 1..MaxDrones}
Rosters == ShortRosters \cup LongRosters

\* Install prefixes the ament index may resolve a package under: absolute,
\* relative, and written with a trailing '/'.
Prefixes == {<<"", "opt", "ros">>, <<"install">>, <<"", "ws", "install", "">>}

VARIABLES
    roster,                 \* the list literal written at line 13
    prefix,                 \* install prefix found by the ament index
    pc,                     \* position of the interpreter in the function
    drones,                 \* local: the participant list
    tello_gazebo_path,      \* local, line 15
    tello_description_path, \* local, line 16
    world_path,             \* local, line 18
    map_path,               \* local, line 19
    entities,               \* local: the list being built
    next_idx,               \* counter of the enumerate() iterator, line 59
    returned                \* the LaunchDescriptions returned so far

vars == <<roster, prefix, pc, drones, tello_gazebo_path, tello_description_path,
          world_path, map_path, entities, next_idx, returned>>

----------------------------------------------------------------------------
\* Pure helpers.

Last(s) == s[Len(s)]
Front(s) == SubSeq(s, 1, Len(s) - 1)

DecimalDigits == <<"0", "1", "2", "3", "4", "5", "6", "7", "8", "9">>

\* A str() that keeps only the last decimal digit.
strLastDigit(n) == DecimalDigits[(n % 10) + 1]

\* str(n) of a non-negative int: its decimal digits, most significant first.
RECURSIVE str(_)
str(n) == IF n < 10 THEN DecimalDigits[n + 1]
          ELSE str(n \div 10) \o DecimalDigits[(n % 10) + 1]

\* A path starts with '/' when its first component is empty and another follows.
isabs(p) == Len(p) > 1 /\ p[1] = ""

\* posixpath.join(a, b): b replaces a when b is absolute; no separator is
\* added when a is empty or already ends with '/'.
join2(a, b) == IF isabs(b) THEN b
               ELSE IF Last(a) = "" THEN Front(a) \o b
               ELSE a \o b

\* os.path.join(a, b, c)
join3(a, b, c) == join2(join2(a, b), c)

\* ament_index_python: <prefix>/share/<package>
get_package_share_directory(pfx, package) == join3(pfx, <<"share">>, <<package>>)

Float(m, e) == [mantissa |-> m, exponent |-> e]

ExecuteProcess(cmd, output) ==
    [kind |-> "ExecuteProcess", cmd |-> cmd, output |-> output,
     package |-> <<>>, node_executable |-> <<>>, node_name |-> <<>>,
     node_namespace |-> <<>>, arguments |-> <<>>, parameters |-> <<>>]

Node(package, node_executable, output, node_name, node_namespace, arguments, parameters) ==
    [kind |-> "Node", cmd |-> <<>>, output |-> output,
     package |-> <<package>>, node_executable |-> <<node_executable>>,
     node_name |-> node_name, node_namespace |-> node_namespace,
     arguments |-> arguments, parameters |-> parameters]

----------------------------------------------------------------------------
\* The global entities, lines 22-56.

Gazebo(wp) ==
    ExecuteProcess(<<"gazebo", "--verbose", "-s", "libgazebo_ros_init.so",
                     "-s", "libgazebo_ros_factory.so", wp>>, "screen")

VmapNode(mp) ==
    Node("fiducial_vlam", "vmap_node", "screen", <<"vmap_node">>, <<>>, <<>>,
         <<[use_sim_time |-> TRUE,
            marker_length |-> Float(1778, -4),
            marker_map_load_full_filename |-> mp,
            make_not_use_map |-> 0]>>)

Rviz ==
    ExecuteProcess(<<"rviz2", "-d", "install/flock2/share/flock2/launch/two.rviz">>, "screen")

JoyNode ==
    Node("joy", "joy_node", "screen", <<"joy_node">>, <<>>, <<>>,
         <<[use_sim_time |-> TRUE]>>)

Reverse(s) == [i \in 1..Len(s) |-> s[Len(s) + 1 - i]]

\* A coordinator that is handed the roster back to front.
FlockBaseReversed(d) ==
    Node("flock2", "flock_base", "screen", <<"flock_base">>, <<>>, <<>>,
         <<[use_sim_time |-> TRUE, drones |-> Reverse(d)]>>)

FlockBase(d) ==
    Node("flock2", "flock_base", "screen", <<"flock_base">>, <<>>, <<>>,
         <<[use_sim_time |-> TRUE, drones |-> d]>>)

\* The list carried over from the previous call instead of a fresh literal.
GlobalEntitiesCarried(wp, mp, d) ==
    entities \o <<Gazebo(wp), VmapNode(mp), Rviz, JoyNode, FlockBase(d)>>

\* Rviz listed ahead of the simulator.
GlobalEntitiesRvizFirst(wp, mp, d) ==
    <<Rviz, Gazebo(wp), VmapNode(mp), JoyNode, FlockBase(d)>>

GlobalEntities(wp, mp, d) ==
    <<Gazebo(wp), VmapNode(mp), Rviz, JoyNode, FlockBase(d)>>

----------------------------------------------------------------------------
\* The per-drone entities, lines 59-91.

\* The 0-based index used where the 1-based number is meant.
SuffixZeroBased(idx) == "_" \o str(idx)

\* Line 60.
Suffix(idx) == "_" \o str(idx + 1)

\* Line 61.
UrdfPath(tdp, suffix) == join3(tdp, <<"urdf">>, <<"tello" \o suffix \o ".urdf">>)

\* The spawn position taken 1-based, like the suffix.
InjectEntityOneBased(idx, urdf_path) ==
    Node("tello_gazebo", "inject_entity.py", "screen", <<>>, <<>>,
         <<urdf_path, "0", str(idx + 1), "1">>, <<>>)

\* Lines 65-66.
InjectEntity(idx, urdf_path) ==
    Node("tello_gazebo", "inject_entity.py", "screen", <<>>, <<>>,
         <<urdf_path, "0", str(idx), "1">>, <<>>)

\* The frame ids built without the suffix.
VlocNodeNoSuffix(namespace, suffix) ==
    Node("fiducial_vlam", "vloc_node", "screen", <<"vloc_node">>, <<namespace>>, <<>>,
         <<[use_sim_time |-> TRUE,
            publish_tfs |-> 1,
            base_frame_id |-> "base_link",
            map_init_pose_z |-> Float(-35, -3),
            camera_frame_id |-> "camera_link"]>>)

\* Lines 69-76.
VlocNode(namespace, suffix) ==
    Node("fiducial_vlam", "vloc_node", "screen", <<"vloc_node">>, <<namespace>>, <<>>,
         <<[use_sim_time |-> TRUE,
            publish_tfs |-> 1,
            base_frame_id |-> "base_link" \o suffix,
            map_init_pose_z |-> Float(-35, -3),
            camera_frame_id |-> "camera_link" \o suffix]>>)

\* The controller left in the root namespace.
DroneBaseNoNamespace(namespace) ==
    Node("flock2", "drone_base", "screen", <<"drone_base">>, <<>>, <<>>,
         <<[use_sim_time |-> TRUE]>>)

\* Lines 79-82.
DroneBase(namespace) ==
    Node("flock2", "drone_base", "screen", <<"drone_base">>, <<namespace>>, <<>>,
         <<[use_sim_time |-> TRUE]>>)

\* Lines 85-90, which the source keeps commented out.
FilterNode(namespace, suffix) ==
    Node("odom_filter", "filter_node", "screen", <<"filter_node">>, <<namespace>>, <<>>,
         <<[use_sim_time |-> TRUE, map_frame |-> "map",
            base_frame |-> "base_link" \o suffix]>>)

\* The loop body with the odometry filter uncommented.
DroneEntitiesWithFilter(idx, namespace, tdp) ==
    LET suffix == Suffix(idx)
        urdf_path == UrdfPath(tdp, suffix)
    IN  <<InjectEntity(idx, urdf_path), VlocNode(namespace, suffix),
          DroneBase(namespace), FilterNode(namespace, suffix)>>

\* The loop body with the controller listed ahead of the localizer.
DroneEntitiesSwapped(idx, namespace, tdp) ==
    LET suffix == Suffix(idx)
        urdf_path == UrdfPath(tdp, suffix)
    IN  <<InjectEntity(idx, urdf_path), DroneBase(namespace),
          VlocNode(namespace, suffix)>>

\* The list passed to entities.extend, lines 60-91.
DroneEntities(idx, namespace, tdp) ==
    LET suffix == Suffix(idx)
        urdf_path == UrdfPath(tdp, suffix)
    IN  <<InjectEntity(idx, urdf_path), VlocNode(namespace, suffix),
          DroneBase(namespace)>>

\* Line 93: the object that wraps the list.
LaunchDescription(e) == [entities |-> e]

----------------------------------------------------------------------------
\* The state machine.

Init ==
    /\ roster \in Rosters
    /\ prefix \in Prefixes
    /\ pc = "idle"
    /\ drones = <<>>
    /\ tello_gazebo_path = <<>>
    /\ tello_description_path = <<>>
    /\ world_path = <<>>
    /\ map_path = <<>>
    /\ entities = <<>>
    /\ next_idx = 0
    /\ returned = <<>>

\* Lines 11-19: the launch system calls the function; the roster and the
\* resource paths are bound.
Enter ==
    /\ pc = "idle"
    /\ Len(returned) < MaxCalls
    /\ drones' = roster
    /\ tello_gazebo_path' = get_package_share_directory(prefix, "tello_gazebo")
    /\ tello_description_path' = get_package_share_directory(prefix, "tello_description")
    /\ world_path' = join3(tello_gazebo_path', <<"worlds">>, <<"fiducial.world">>)
    /\ map_path' = join3(tello_gazebo_path', <<"worlds">>, <<"fiducial_map.yaml">>)
    /\ pc' = "globals"
    /\ UNCHANGED <<roster, prefix, entities, next_idx, returned>>

\* Lines 22-56, and the creation of the enumerate iterator of line 59.
BuildGlobals ==
    /\ pc = "globals"
    /\ entities' = GlobalEntities(world_path, map_path, drones)
    /\ next_idx' = 0
    /\ pc' = "loop"
    /\ UNCHANGED <<roster, prefix, drones, tello_gazebo_path, tello_description_path,
                   world_path, map_path, returned>>

\* Lines 59-91: one iteration of the loop.
Iterate ==
    /\ pc = "loop"
    /\ next_idx < Len(drones)
    /\ LET idx == next_idx
           namespace == drones[next_idx + 1]
       IN  entities' = entities \o DroneEntities(idx, namespace, tello_description_path)
    /\ next_idx' = next_idx + 1
    /\ UNCHANGED <<roster, prefix, pc, drones, tello_gazebo_path, tello_description_path,
                   world_path, map_path, returned>>

\* Line 93, once the iterator is exhausted.
Return ==
    /\ pc = "loop"
    /\ next_idx = Len(drones)
    /\ returned' = Append(returned, LaunchDescription(entities))
    /\ pc' = "idle"
    /\ UNCHANGED <<roster, prefix, drones, tello_gazebo_path, tello_description_path,
                   world_path, map_path, entities, next_idx>>

Next == Enter \/ BuildGlobals \/ Iterate \/ Return

Spec == Init /\ [][Next]_vars

----------------------------------------------------------------------------
\* Vocabulary of the properties.

N == Len(roster)
Indices == 0..(N - 1)
Name(i) == roster[i + 1]

\* The plans handed back so far.
Plans == {returned[k].entities : k \in 1..Len(returned)}

NumGlobal == 5
PerDrone == 3

\* The three descriptors of the block of participant i in plan p.
Inject(p, i) == p[NumGlobal + PerDrone * i + 1]
Vloc(p, i) == p[NumGlobal + PerDrone * i + 2]
Base(p, i) == p[NumGlobal + PerDrone * i + 3]

Executable(e) == e.node_executable
Params(e) == e.parameters[1]

\* C1: every returned plan has exactly 5 + 3*N descriptors (N the size of
\* the participant list, N = 0 giving the five global ones only), and none
\* of them is the commented-out odometry filter node.
C1_PlanSize ==
    \A p \in Plans :
        /\ Len(p) = 5 + 3 * N
        /\ (N = 0 => p = GlobalEntities(world_path, map_path, roster))
        /\ \A k \in 1..Len(p) : /\ Executable(p[k]) # <<"filter_node">>
                                /\ p[k].package # <<"odom_filter">>

C1_Witness ==
    /\ N = 2
    /\ \E p \in Plans : Len(p) = 11

\* C2 as stated: all three descriptors built for participant i (the
\* entity-injection node, vloc_node and drone_base) have the participant's
\* name as namespace.
C2_AllThreeNamespaced ==
    \A p \in Plans : \A i \in Indices :
        /\ Inject(p, i).node_namespace = <<Name(i)>>
        /\ Vloc(p, i).node_namespace = <<Name(i)>>
        /\ Base(p, i).node_namespace = <<Name(i)>>

\* C2 amended: vloc_node and drone_base of participant i have the
\* participant's name, unchanged, as namespace; the entity-injection node is
\* built without a namespace.
C2_Namespaces ==
    \A p \in Plans : \A i \in Indices :
        /\ Vloc(p, i).node_namespace = <<Name(i)>>
        /\ Base(p, i).node_namespace = <<Name(i)>>
        /\ Inject(p, i).node_namespace = <<>>

C2_Witness ==
    /\ N >= 2
    /\ Name(0) # Name(1)
    /\ \E p \in Plans : /\ Base(p, 1).node_namespace = <<Name(1)>>
                        /\ Inject(p, 1).node_namespace = <<>>

\* C3: for participant i (0-based) base_frame_id is 'base_link' + s,
\* camera_frame_id is 'camera_link' + s and the URDF file name is
\* 'tello' + s + '.urdf', with the same s = '_' followed by the decimal of i+1.
C3_Suffix ==
    \A p \in Plans : \A i \in Indices :
        LET s == "_" \o Dec(i + 1)
            urdf_path == Inject(p, i).arguments[1]
        IN  /\ Params(Vloc(p, i)).base_frame_id = "base_link" \o s
            /\ Params(Vloc(p, i)).camera_frame_id = "camera_link" \o s
            /\ Last(urdf_path) = "tello" \o s \o ".urdf"

C3_Witness ==
    /\ N >= 10
    /\ \E p \in Plans :
        /\ Params(Vloc(p, 0)).base_frame_id = "base_link_1"
        /\ Params(Vloc(p, 1)).camera_frame_id = "camera_link_2"
        /\ Last(Inject(p, 9).arguments[1]) = "tello_10.urdf"

\* C4: the spawn-position argument of participant i is the decimal of i,
\* one less than the number in the participant's frame-id and URDF suffix,
\* and never that number.
C4_SpawnPosition ==
    \A p \in Plans : \A i \in Indices :
        LET args == Inject(p, i).arguments
        IN  /\ Len(args) = 4
            /\ args[3] = Dec(i)
            /\ Params(Vloc(p, i)).base_frame_id = "base_link_" \o Dec(i + 1)
            /\ Last(args[1]) = "tello_" \o Dec(i + 1) \o ".urdf"
            /\ args[3] # Dec(i + 1)

C4_Witness ==
    /\ N >= 10
    /\ \E p \in Plans :
        /\ Inject(p, 0).arguments[3] = "0"
        /\ Inject(p, 9).arguments[3] = "9"
        /\ Params(Vloc(p, 9)).base_frame_id = "base_link_10"

\* C5: the 'drones' parameter of flock_base is the input list, same elements
\* in the same order, and the participant list is the input list at every
\* point of the per-participant loop.
C5_Drones ==
    /\ \A p \in Plans :
        /\ Executable(p[5]) = <<"flock_base">>
        /\ Params(p[5]).drones = roster
    /\ pc = "loop" =>
        /\ drones = roster
        /\ Params(entities[5]).drones = roster

C5_Witness ==
    /\ roster = <<"drone2", "drone1", "drone1">>
    /\ \E p \in Plans : Params(p[5]).drones = <<"drone2", "drone1", "drone1">>

GlobalExecutables == {<<"vmap_node">>, <<"joy_node">>, <<"flock_base">>}
DroneExecutables == {<<"inject_entity.py">>, <<"vloc_node">>, <<"drone_base">>}

\* C6: in every returned plan the gazebo process is first, the map node and
\* the other global descriptors fill positions 2 to 5, and every descriptor
\* after position 5 is a per-participant one.
C6_Order ==
    \A p \in Plans :
        /\ p[1].kind = "ExecuteProcess"
        /\ p[1].cmd[1] = "gazebo"
        /\ Executable(p[2]) = <<"vmap_node">>
        /\ p[3].kind = "ExecuteProcess"
        /\ p[3].cmd[1] = "rviz2"
        /\ Executable(p[4]) = <<"joy_node">>
        /\ Executable(p[5]) = <<"flock_base">>
        /\ \A k \in 6..Len(p) : /\ p[k].kind = "Node"
                                /\ Executable(p[k]) \in DroneExecutables
                                /\ Executable(p[k]) \notin GlobalExecutables

C6_Witness ==
    /\ N >= 2
    /\ \E p \in Plans : /\ p[1].cmd[1] = "gazebo"
                        /\ Executable(p[6]) = <<"inject_entity.py">>

\* C7: for the input ['drone1', 'drone2'] the plan holds a vloc_node with
\* namespace 'drone2', base_frame_id 'base_link_2' and camera_frame_id
\* 'camera_link_2', and the spawn descriptor of the second participant has
\* the arguments [<path of tello_2.urdf>, '0', '1', '1'].
C7_Scenario ==
    roster = <<"drone1", "drone2">> =>
        \A p \in Plans :
            /\ \E k \in 1..Len(p) :
                /\ Executable(p[k]) = <<"vloc_node">>
                /\ p[k].node_namespace = <<"drone2">>
                /\ Params(p[k]).base_frame_id = "base_link_2"
                /\ Params(p[k]).camera_frame_id = "camera_link_2"
            /\ LET args == Inject(p, 1).arguments
               IN  /\ Executable(Inject(p, 1)) = <<"inject_entity.py">>
                   /\ Len(args) = 4
                   /\ Last(args[1]) = "tello_2.urdf"
                   /\ SubSeq(args, 2, 4) = <<"0", "1", "1">>

C7_Witness ==
    /\ roster = <<"drone1", "drone2">>
    /\ Len(returned) >= 1

\* C8: two calls with the same participant list and resource paths return
\* equal plans: same length and the same descriptor at every position.
C8_Idempotent ==
    \A j, k \in 1..Len(returned) : returned[j] = returned[k]

C8_Witness ==
    /\ Len(returned) >= 2
    /\ N >= 1
    /\ Len(returned[2].entities) = 5 + 3 * N

\* C9: positions 5+3i, 5+3i+1 and 5+3i+2 (0-based) of a returned plan hold
\* the entity-injection descriptor, the vloc_node and the drone_base of
\* participant i, in this order.
C9_Blocks ==
    \A p \in Plans : \A i \in Indices :
        /\ Executable(Inject(p, i)) = <<"inject_entity.py">>
        /\ Inject(p, i).arguments[3] = Dec(i)
        /\ Executable(Vloc(p, i)) = <<"vloc_node">>
        /\ Vloc(p, i).node_namespace = <<Name(i)>>
        /\ Params(Vloc(p, i)).base_frame_id = "base_link_" \o Dec(i + 1)
        /\ Executable(Base(p, i)) = <<"drone_base">>
        /\ Base(p, i).node_namespace = <<Name(i)>>

C9_Witness ==
    /\ N >= 3
    /\ Name(1) # Name(2)
    /\ \E p \in Plans : /\ Executable(p[9]) = <<"inject_entity.py">>
                        /\ Executable(p[10]) = <<"vloc_node">>
                        /\ Executable(p[11]) = <<"drone_base">>
                        /\ Executable(p[12]) = <<"inject_entity.py">>

\* C10: for two distinct indices i and j, whatever the names, the
\* base_frame_id, camera_frame_id, URDF path and spawn-position argument of
\* participant i differ from those of participant j; the namespaces differ
\* exactly when the names differ.
C10_Unique ==
    \A p \in Plans : \A i, j \in Indices :
        i # j =>
            /\ Params(Vloc(p, i)).base_frame_id # Params(Vloc(p, j)).base_frame_id
            /\ Params(Vloc(p, i)).camera_frame_id # Params(Vloc(p, j)).camera_frame_id
            /\ Inject(p, i).arguments[1] # Inject(p, j).arguments[1]
            /\ Inject(p, i).arguments[3] # Inject(p, j).arguments[3]
            /\ (Vloc(p, i).node_namespace # Vloc(p, j).node_namespace) <=> (Name(i) # Name(j))
            /\ (Base(p, i).node_namespace # Base(p, j).node_namespace) <=> (Name(i) # Name(j))

C10_Witness ==
    /\ N >= 11
    /\ Name(0) = Name(10)
    /\ Name(0) # Name(1)
    /\ \E p \in Plans :
        /\ Vloc(p, 0).node_namespace = Vloc(p, 10).node_namespace
        /\ Params(Vloc(p, 0)).base_frame_id # Params(Vloc(p, 10)).base_frame_id

====
